---- MODULE Spec2Model ----
(***************************************************************************)
(* A model of the load balancer: the Backend health record (backend.go),   *)
(* the two selection strategies (proxy.go, least-conn.go), the balancer    *)
(* and its admin handler (loadbalancer.go), the reverse-proxy hooks        *)
(* (proxy.go) and the server that main wires together.                     *)
(*                                                                         *)
(* The specifications share the variables:                                 *)
(*   Spec            the running server of main: requests enter through    *)
(*                   the mux, the probe loops run beside them;             *)
(*   SpecBackend     the Backend type driven by its callers (probe loop    *)
(*                   and failure report) in any interleaving;              *)
(*   SpecRoundRobin  RoundRobin.NextBackend called repeatedly on a list    *)
(*                   whose health is stable;                               *)
(*   SpecRoundRobinShared  one RoundRobin instance called by concurrent    *)
(*                   goroutines;                                           *)
(*   SpecLeastConnection  LeastConnection.NextBackend on any health and    *)
(*                   connection counts;                                    *)
(*   SpecBalancer    the operations of LoadBalancer and Backend called     *)
(*                   directly by concurrent goroutines;                    *)
(*   SpecProbe       the probe loops under a fair scheduler, with the      *)
(*                   /health endpoints as environment.                     *)
(* Backends are numbered 1..Len(backends); 0 stands for a nil *Backend.    *)
(* The round-robin cursor keeps Go's 0-based value.                        *)
(***************************************************************************)
EXTENDS Integers, Sequences, FiniteSets, TLC

VARIABLES
    backends,   \* lb.backends: sequence of Backend records
    lb,         \* the LoadBalancer: its mutex holder and its algorithm
    reqs,       \* the requests (goroutines), one record per request
    hist        \* history of calls, read by the properties; in SpecProbe
                \* also the /health endpoints and the probe loops' positions

vars == <<backends, lb, reqs, hist>>

----------------------------------------------------------------------------
(* Bounds of the model *)

MaxBackends == 3
MaxRequests == 2
MaxFailures == 7
MaxCalls == 4
MaxConns == 2
MaxBalancerCalls == 3
MaxChanges == 2

(* Constants of the program *)

NumBackends == 2
FailureThreshold == 5
MathMaxInt64 == 2147483647
StatusOK == 200
StatusBadRequest == 400
StatusNotFound == 404
StatusBadGateway == 502
StatusInternalServerError == 500

----------------------------------------------------------------------------
(* Backend (backend.go) *)

(* mu names the writer that holds b.mu ("" when no writer holds it) *)
NewBackend == [Healthy |-> TRUE, mu |-> "", failureCount |-> 0, ActiveConnections |-> 0]

IsHealthy(b) == b.Healthy

(* MarkHealthy without the reset of the counter *)
MarkHealthyKeepCount(b) == [b EXCEPT !.Healthy = TRUE]

MarkHealthy(b) == [b EXCEPT !.Healthy = TRUE, !.failureCount = 0]

(* MarkUnHealthy that acts only on a backend with failures counted *)
MarkUnHealthyIfFailed(b) == IF b.failureCount = 0 THEN b ELSE [b EXCEPT !.Healthy = FALSE]

(* MarkUnHealthy that also resets the counter *)
MarkUnHealthyReset(b) == [b EXCEPT !.Healthy = FALSE, !.failureCount = 0]

MarkUnHealthy(b) == [b EXCEPT !.Healthy = FALSE]

(* IncrementFailure that trips only above the threshold *)
IncrementFailureStrict(b) ==
    LET n == b.failureCount + 1
    IN  [b EXCEPT !.failureCount = n,
                  !.Healthy = IF n > FailureThreshold THEN FALSE ELSE @]

IncrementFailure(b) ==
    LET n == b.failureCount + 1
    IN  [b EXCEPT !.failureCount = n,
                  !.Healthy = IF n >= FailureThreshold THEN FALSE ELSE @]

AtomicAddActive(b, d) == [b EXCEPT !.ActiveConnections = @ + d]

----------------------------------------------------------------------------
(* Strategies *)

NilAlgorithm == [name |-> "nil"]
NewRoundRobin == [name |-> "round-robin", mu |-> 0, index |-> 0]
NewLeastConnection == [name |-> "least-connection"]

(* The iteration with the cursor left in place when it returns a backend *)
RRStepNoAdvanceOnHit(index, start, bs) ==
    LET next == (index + 1) % Len(bs)
    IN  IF bs[index + 1].Healthy
        THEN [done |-> TRUE, ret |-> index + 1, index |-> index]
        ELSE IF start = next
             THEN [done |-> TRUE, ret |-> 0, index |-> next]
             ELSE [done |-> FALSE, ret |-> 0, index |-> next]

(* The iteration giving up at the first unhealthy backend *)
RRStepStopEarly(index, start, bs) ==
    LET next == (index + 1) % Len(bs)
    IN  IF bs[index + 1].Healthy
        THEN [done |-> TRUE, ret |-> index + 1, index |-> next]
        ELSE [done |-> TRUE, ret |-> 0, index |-> next]

(* The iteration that gives up at the end of the list, not after a full   *)
(* turn from where the call started                                        *)
RRStepStopAtEnd(index, start, bs) ==
    LET next == (index + 1) % Len(bs)
    IN  IF bs[index + 1].Healthy
        THEN [done |-> TRUE, ret |-> index + 1, index |-> next]
        ELSE IF next = 0
             THEN [done |-> TRUE, ret |-> 0, index |-> next]
             ELSE [done |-> FALSE, ret |-> 0, index |-> next]

(* One iteration of the loop of RoundRobin.NextBackend: the cursor moves   *)
(* first, then the backend it stood on is examined.                        *)
RRStep(index, start, bs) ==
    LET next == (index + 1) % Len(bs)
    IN  IF IsHealthy(bs[index + 1])
        THEN [done |-> TRUE, ret |-> index + 1, index |-> next]
        ELSE IF start = next
             THEN [done |-> TRUE, ret |-> 0, index |-> next]
             ELSE [done |-> FALSE, ret |-> 0, index |-> next]

RECURSIVE RRLoop(_, _, _)
RRLoop(index, start, bs) ==
    LET s == RRStep(index, start, bs)
    IN  IF s.done THEN s ELSE RRLoop(s.index, start, bs)

(* The number of iterations the loop of RoundRobin.NextBackend makes *)
RECURSIVE RRIterations(_, _, _)
RRIterations(index, start, bs) ==
    LET s == RRStep(index, start, bs)
    IN  IF s.done THEN 1 ELSE 1 + RRIterations(s.index, start, bs)

(* RoundRobin.NextBackend run to completion on a list that does not change *)
RoundRobinNextBackend(index, bs) == RRLoop(index, index, bs)

(* The iteration in which a backend with an equal count replaces the best *)
LCStepLastWins(i, best, min, bs) ==
    IF ~bs[i].Healthy
    THEN [best |-> best, min |-> min]
    ELSE IF bs[i].ActiveConnections <= min
         THEN [best |-> i, min |-> bs[i].ActiveConnections]
         ELSE [best |-> best, min |-> min]

(* The iteration that takes a backend without the health test *)
LCStepAnyHealth(i, best, min, bs) ==
    IF bs[i].ActiveConnections < min
    THEN [best |-> i, min |-> bs[i].ActiveConnections]
    ELSE [best |-> best, min |-> min]

(* One iteration of the loop of LeastConnection.NextBackend *)
LCStep(i, best, min, bs) ==
    IF ~IsHealthy(bs[i])
    THEN [best |-> best, min |-> min]
    ELSE IF bs[i].ActiveConnections < min
         THEN [best |-> i, min |-> bs[i].ActiveConnections]
         ELSE [best |-> best, min |-> min]

RECURSIVE LCLoop(_, _, _, _)
LCLoop(i, best, min, bs) ==
    IF i > Len(bs)
    THEN best
    ELSE LET s == LCStep(i, best, min, bs)
         IN  LCLoop(i + 1, s.best, s.min, bs)

(* LeastConnection.NextBackend run to completion on a list that does not   *)
(* change                                                                  *)
LeastConnectionNextBackend(bs) == LCLoop(1, 0, MathMaxInt64, bs)

----------------------------------------------------------------------------
(* The response writer and the requests *)

NewResponse == [status |-> 0, body |-> <<>>]

(* http.ResponseWriter.WriteHeader: the first call decides the status *)
WriteHeader(w, code) == IF w.status = 0 THEN [w EXCEPT !.status = code] ELSE w

(* http.ResponseWriter.Write: writes the chunk, with status 200 if none was written *)
Write(w, chunk) == [status |-> IF w.status = 0 THEN StatusOK ELSE w.status,
                    body |-> Append(w.body, chunk)]

EmptyCtx == [loadBalancerErr |-> FALSE, backend |-> 0]

(* The requests sent to the server: method, path, value of the query's    *)
(* algorithm parameter ("" when absent).                                   *)
AdminPaths == {"/change-algorithm", "/admin/change-algorithm"}
Algorithms == {"round-robin", "least-connection", "bogus"}
Inputs == {<<"GET", "/", "">>} \cup ({"POST"} \X AdminPaths \X Algorithms)
BackendStatuses == {StatusOK, StatusInternalServerError}

Reqs == 1..MaxRequests

NewRequest ==
    [pc |-> "new", method |-> "", path |-> "", algorithm |-> "",
     target |-> -1, ctx |-> EmptyCtx, dctx |-> EmptyCtx, backend |-> 0,
     start |-> 0, i |-> 0, best |-> 0, min |-> 0, w |-> NewResponse]

NoHist == <<>>

----------------------------------------------------------------------------
(* main: two backends, both healthy; no algorithm set; the mux *)

NewLoadBalancer == [mu |-> 0, algorithm |-> NilAlgorithm]

Init ==
    /\ backends = [b \in 1..NumBackends |-> NewBackend]
    /\ lb = NewLoadBalancer
    /\ reqs = [r \in Reqs |-> NewRequest]
    /\ hist = NoHist

(* http.ServeMux with the patterns "/" and "POST /admin/change-algorithm":  *)
(* the more specific pattern wins, every other request falls to "/".       *)
MuxRoute(method, path) ==
    IF method = "POST" /\ path = "/admin/change-algorithm"
    THEN "admin" ELSE "director"

(* A request reaches the server. Requests are numbered in arrival order. *)
Arrive(r, method, path, algorithm) ==
    /\ reqs[r].pc = "new"
    /\ r > 1 => reqs[r - 1].pc # "new"
    /\ reqs' = [reqs EXCEPT ![r].pc = MuxRoute(method, path),
                            ![r].method = method,
                            ![r].path = path,
                            ![r].algorithm = algorithm]
    /\ UNCHANGED <<backends, lb, hist>>

----------------------------------------------------------------------------
(* LoadBalancer (loadbalancer.go) *)

SetAlgorithmIfUnset(l, algo) ==
    IF l.algorithm.name = "nil" THEN [l EXCEPT !.algorithm = algo] ELSE l

SetAlgorithm(l, algo) == [l EXCEPT !.algorithm = algo]

(* LoadBalancer.ServeHTTP as a function of the request: the balancer and   *)
(* the response writer it leaves. The 404 after the switch is written on   *)
(* every path that does not return.                                        *)
ServeHTTPResult(l, w, method, path, algorithm) ==
    IF path = "/change-algorithm" /\ method = "POST"
    THEN CASE algorithm = "round-robin" ->
                [lb |-> SetAlgorithm(l, NewRoundRobin),
                 w |-> WriteHeader(WriteHeader(w, StatusOK), StatusNotFound)]
           [] algorithm = "least-connection" ->
                [lb |-> SetAlgorithm(l, NewLeastConnection),
                 w |-> WriteHeader(WriteHeader(w, StatusOK), StatusNotFound)]
           [] OTHER ->
                [lb |-> l, w |-> WriteHeader(w, StatusBadRequest)]
    ELSE [lb |-> l, w |-> WriteHeader(w, StatusNotFound)]

(* Whether ServeHTTP takes lb.mu (through SetAlgorithm) for this request *)
ServeHTTPLocks(method, path, algorithm) ==
    /\ path = "/change-algorithm" /\ method = "POST"
    /\ algorithm \in {"round-robin", "least-connection"}

ServeHTTP(r) ==
    LET q == reqs[r]
        res == ServeHTTPResult(lb, q.w, q.method, q.path, q.algorithm)
    IN  /\ q.pc = "admin"
        /\ ServeHTTPLocks(q.method, q.path, q.algorithm) => lb.mu = 0
        /\ lb' = res.lb
        /\ reqs' = [reqs EXCEPT ![r].pc = "done", ![r].w = res.w]
        /\ UNCHANGED <<backends, hist>>

(* LoadBalancer.NextBackend up to the strategy's loop: lb.mu is taken, the *)
(* default strategy installed if none is set, and the strategy entered     *)
(* (RoundRobin takes rr.mu and remembers where it starts).                 *)
(* The entry that installs a new default on every call *)
NextBackendEnterAlwaysDefault(l, r) ==
    [mu |-> r, algorithm |-> [NewRoundRobin EXCEPT !.mu = r]]

NextBackendEnter(l, r) ==
    LET algo == IF l.algorithm.name = "nil" THEN NewRoundRobin ELSE l.algorithm
    IN  [mu |-> r,
         algorithm |-> IF algo.name = "round-robin"
                       THEN [algo EXCEPT !.mu = r] ELSE algo]

NextBackendEnterStep(r) ==
    /\ reqs[r].pc = "director"
    /\ lb.mu = 0
    /\ lb' = NextBackendEnter(lb, r)
    /\ reqs' = [reqs EXCEPT ![r].pc = "scan",
                            ![r].start = IF lb'.algorithm.name = "round-robin"
                                         THEN lb'.algorithm.index ELSE 0,
                            ![r].i = 1,
                            ![r].best = 0,
                            ![r].min = MathMaxInt64]
    /\ UNCHANGED backends

DirectorNextBackend(r) == NextBackendEnterStep(r) /\ UNCHANGED hist

(* A NextBackend that returns without its deferred unlocks *)
NextBackendReturnLocked(l) == l

(* The deferred unlocks of NextBackend: rr.mu (round-robin), then lb.mu *)
NextBackendReturn(l) ==
    [mu |-> 0,
     algorithm |-> IF l.algorithm.name = "round-robin"
                   THEN [l.algorithm EXCEPT !.mu = 0] ELSE l.algorithm]

(* One iteration of the active strategy's loop, run by the request that    *)
(* holds lb.mu; the iteration that returns also releases the locks.        *)
NextBackendScanStep(r) ==
    LET q == reqs[r] IN
    /\ q.pc = "scan"
    /\ IF lb.algorithm.name = "round-robin"
       THEN LET s == RRStep(lb.algorithm.index, q.start, backends)
            IN  /\ lb' = IF s.done
                          THEN NextBackendReturn([lb EXCEPT !.algorithm.index = s.index])
                          ELSE [lb EXCEPT !.algorithm.index = s.index]
                /\ reqs' = IF s.done
                            THEN [reqs EXCEPT ![r].pc = "dispatch", ![r].backend = s.ret,
                                              ![r].start = 0, ![r].i = 0, ![r].min = 0]
                            ELSE reqs
       ELSE LET s == LCStep(q.i, q.best, q.min, backends)
            IN  IF q.i = Len(backends)
                THEN /\ lb' = NextBackendReturn(lb)
                     /\ reqs' = [reqs EXCEPT ![r].pc = "dispatch", ![r].backend = s.best,
                                             ![r].i = 0, ![r].best = 0, ![r].min = 0]
                ELSE /\ lb' = lb
                     /\ reqs' = [reqs EXCEPT ![r].i = q.i + 1,
                                             ![r].best = s.best, ![r].min = s.min]
    /\ UNCHANGED backends

NextBackendScan(r) == NextBackendScanStep(r) /\ UNCHANGED hist

----------------------------------------------------------------------------
(* The reverse proxy's hooks (proxy.go) *)

(* Director after lb.NextBackend returned. ctx is Director's local value;  *)
(* its last statement, r = r.WithContext(ctx), binds the parameter r to a  *)
(* shallow copy, so the request the proxy goes on with keeps the context   *)
(* it had (field ctx), and the copy (field dctx) is dropped on return.     *)
(* The writes through r before that (r.URL) reach the proxy's request.     *)
DirectorCtx(b) ==
    IF b = 0 THEN [EmptyCtx EXCEPT !.loadBalancerErr = TRUE]
             ELSE [EmptyCtx EXCEPT !.backend = b]

DirectorDispatchStep(r) ==
    LET b == reqs[r].backend IN
    /\ reqs[r].pc = "dispatch"
    /\ backends' = IF b = 0 THEN backends
                   ELSE [backends EXCEPT ![b] = AtomicAddActive(@, 1)]
    /\ reqs' = [reqs EXCEPT ![r].pc = "transport",
                            ![r].target = b,
                            ![r].dctx = DirectorCtx(b)]
    /\ UNCHANGED lb

DirectorDispatch(r) == DirectorDispatchStep(r) /\ UNCHANGED hist

ErrorHandlerResult(ctx, w, bs) ==
    IF ctx.loadBalancerErr
    THEN [w |-> Write(WriteHeader(w, StatusBadGateway), "no healthy backend available"),
          backends |-> bs]
    ELSE [w |-> Write(WriteHeader(w, StatusBadGateway), "Bad Gateway"),
          backends |-> IF ctx.backend # 0
                       THEN [bs EXCEPT ![ctx.backend] = IncrementFailure(@)]
                       ELSE bs]

(* The transport fails (always so for the empty URL of a request without   *)
(* a backend) and the proxy calls ErrorHandler with its request.           *)
ErrorHandler(r) ==
    LET q == reqs[r]
        res == ErrorHandlerResult(q.ctx, q.w, backends)
    IN  /\ q.pc = "transport"
        /\ (~q.ctx.loadBalancerErr /\ q.ctx.backend # 0)
              => backends[q.ctx.backend].failureCount < MaxFailures
        /\ backends' = res.backends
        /\ reqs' = [reqs EXCEPT ![r].pc = "done", ![r].w = res.w]
        /\ UNCHANGED <<lb, hist>>

(* The success hook with passive recovery: it also marks the backend healthy *)
ModifyResponseRecovers(ctx, bs) ==
    IF ctx.backend # 0
    THEN [bs EXCEPT ![ctx.backend] = MarkHealthy(AtomicAddActive(@, -1))]
    ELSE bs

ModifyResponseResult(ctx, bs) ==
    IF ctx.backend # 0
    THEN [bs EXCEPT ![ctx.backend] = AtomicAddActive(@, -1)]
    ELSE bs

(* The backend answers with some status; the proxy calls ModifyResponse    *)
(* with the response (whose Request is the proxy's request) and copies the *)
(* response to the client.                                                 *)
ModifyResponse(r, status) ==
    LET q == reqs[r] IN
    /\ q.pc = "transport"
    /\ q.target # 0
    /\ backends' = ModifyResponseResult(q.ctx, backends)
    /\ reqs' = [reqs EXCEPT ![r].pc = "done",
                            ![r].w = Write(WriteHeader(q.w, status), "upstream")]
    /\ UNCHANGED <<lb, hist>>

----------------------------------------------------------------------------
(* The probe loops (LoadBalancer.StartHealthCheck): one per backend, each  *)
(* round ends in MarkHealthy or MarkUnHealthy.                             *)

ProbeSuccess(b) ==
    /\ backends' = [backends EXCEPT ![b] = MarkHealthy(@)]
    /\ UNCHANGED <<lb, reqs>>

ProbeFailure(b) ==
    /\ backends' = [backends EXCEPT ![b] = MarkUnHealthy(@)]
    /\ UNCHANGED <<lb, reqs>>

Next ==
    \/ \E r \in Reqs, in \in Inputs : Arrive(r, in[1], in[2], in[3])
    \/ \E r \in Reqs : ServeHTTP(r)
    \/ \E r \in Reqs : DirectorNextBackend(r)
    \/ \E r \in Reqs : NextBackendScan(r)
    \/ \E r \in Reqs : DirectorDispatch(r)
    \/ \E r \in Reqs : ErrorHandler(r)
    \/ \E r \in Reqs, s \in BackendStatuses : ModifyResponse(r, s)
    \/ \E b \in 1..Len(backends) : ProbeSuccess(b) /\ UNCHANGED hist
    \/ \E b \in 1..Len(backends) : ProbeFailure(b) /\ UNCHANGED hist

Spec == Init /\ [][Next]_vars

----------------------------------------------------------------------------
(* SpecBackend: the Backend type under its callers. The probe loop calls   *)
(* MarkHealthy / MarkUnHealthy, ErrorHandler (proxy.go:57-60) calls        *)
(* IncrementFailure; each call holds b.mu for its whole body, so each is   *)
(* one step. hist[b] remembers, per backend: fails, the IncrementFailure   *)
(* calls since construction or the last MarkHealthy; down, whether         *)
(* MarkUnHealthy was called since then; reset, the counter value the last  *)
(* MarkHealthy found (-1 before the first); downAt, the counter value the  *)
(* last MarkUnHealthy since then found (-1 if none).                       *)

InitBackend ==
    /\ \E ac \in [1..NumBackends -> 0..1] :
          backends = [b \in 1..NumBackends |->
                        [NewBackend EXCEPT !.ActiveConnections = ac[b]]]
    /\ lb = NewLoadBalancer
    /\ reqs = [r \in Reqs |-> NewRequest]
    /\ hist = [b \in 1..NumBackends |-> [fails |-> 0, down |-> FALSE, reset |-> -1, downAt |-> -1]]

BackendProbeSuccess(b) ==
    /\ ProbeSuccess(b)
    /\ hist' = [hist EXCEPT ![b] = [fails |-> 0, down |-> FALSE,
                                    reset |-> backends[b].failureCount,
                                    downAt |-> -1]]

BackendProbeFailure(b) ==
    /\ ProbeFailure(b)
    /\ hist' = [hist EXCEPT ![b].down = TRUE, ![b].downAt = backends[b].failureCount]

ReportFailure(b) ==
    /\ backends[b].failureCount < MaxFailures
    /\ backends' = [backends EXCEPT ![b] = IncrementFailure(@)]
    /\ hist' = [hist EXCEPT ![b].fails = @ + 1]
    /\ UNCHANGED <<lb, reqs>>

NextBackendType ==
    \/ \E b \in 1..Len(backends) : BackendProbeSuccess(b)
    \/ \E b \in 1..Len(backends) : BackendProbeFailure(b)
    \/ \E b \in 1..Len(backends) : ReportFailure(b)

SpecBackend == InitBackend /\ [][NextBackendType]_vars

----------------------------------------------------------------------------
(* SpecRoundRobin: RoundRobin.NextBackend called up to MaxCalls times, one *)
(* call after the other, on 1..MaxBackends backends with any health        *)
(* assignment and any cursor. hist.first is the cursor at the start;       *)
(* hist.picks lists, per call, the cursor before (p), the backend returned *)
(* (ret, 0 for nil), the cursor after (index) and the number of loop       *)
(* iterations made (iters).                                                *)

InitRoundRobin ==
    \E n \in 1..MaxBackends :
      \E health \in [1..n -> BOOLEAN], p \in 0..(n - 1) :
        /\ backends = [b \in 1..n |-> [NewBackend EXCEPT !.Healthy = health[b]]]
        /\ lb = [mu |-> 0, algorithm |-> [NewRoundRobin EXCEPT !.index = p]]
        /\ reqs = [r \in Reqs |-> NewRequest]
        /\ hist = [first |-> p, picks |-> <<>>]

RoundRobinCall ==
    LET s == RoundRobinNextBackend(lb.algorithm.index, backends) IN
    /\ Len(hist.picks) < MaxCalls
    /\ lb' = [lb EXCEPT !.algorithm.index = s.index]
    /\ hist' = [hist EXCEPT !.picks = Append(@, [p |-> lb.algorithm.index,
                                                 ret |-> s.ret,
                                                 index |-> s.index,
                                                 iters |-> RRIterations(lb.algorithm.index,
                                                                        lb.algorithm.index,
                                                                        backends)])]
    /\ UNCHANGED <<backends, reqs>>

NextRoundRobin == RoundRobinCall

SpecRoundRobin == InitRoundRobin /\ [][NextRoundRobin]_vars

----------------------------------------------------------------------------
(* SpecBalancer: the operations of LoadBalancer and Backend called         *)
(* directly by goroutines 1..MaxRequests on the backends main builds. A    *)
(* goroutine either calls lb.SetAlgorithm, or runs the request path:       *)
(* lb.NextBackend (entry, then one step per loop iteration), the           *)
(* connection count of Director, and then the success hook or the error    *)
(* hook, each applied to the context Director built (dctx). The probe      *)
(* writers take b.mu in one step and write and release it in the next, so  *)
(* a reader can find the lock held. At most MaxBalancerCalls calls of       *)
(* NextBackend are made.                                                   *)
(* hist holds: set, the algorithm of the last SetAlgorithm that returned   *)
(* ("" if none); calls, the NextBackend calls that have returned; seq, for *)
(* a goroutine whose call has just returned, its place in the order of     *)
(* returns; clean, whether every backend has been healthy throughout;      *)
(* ok, whether a forwarded request has completed successfully on a backend *)
(* that was not healthy at that moment.                                    *)

InitBalancer ==
    /\ backends = [b \in 1..NumBackends |-> NewBackend]
    /\ lb = NewLoadBalancer
    /\ reqs = [r \in Reqs |-> NewRequest]
    /\ hist = [set |-> "", calls |-> 0, clean |-> TRUE, ok |-> FALSE,
               seq |-> [g \in Reqs |-> 0]]

(* The goroutines inside a NextBackend call *)
Calling == {g \in Reqs : reqs[g].pc \in {"director", "scan"}}

(* The backend the next loop iteration of the call of r reads *)
Examined(r) ==
    IF lb.algorithm.name = "round-robin" THEN lb.algorithm.index + 1 ELSE reqs[r].i

CallNextBackend(g) ==
    /\ reqs[g].pc = "new"
    /\ hist.calls + Cardinality(Calling) < MaxBalancerCalls
    /\ reqs' = [reqs EXCEPT ![g].pc = "director"]
    /\ UNCHANGED <<backends, lb, hist>>

BalancerEnter(g) == NextBackendEnterStep(g) /\ UNCHANGED hist

(* IsHealthy takes b.mu for reading: the iteration waits while a writer    *)
(* holds it.                                                               *)
BalancerScan(g) ==
    /\ reqs[g].pc = "scan"
    /\ backends[Examined(g)].mu = ""
    /\ NextBackendScanStep(g)
    /\ hist' = IF reqs'[g].pc = "dispatch"
               THEN [hist EXCEPT !.calls = @ + 1, !.seq[g] = hist.calls + 1]
               ELSE hist

BalancerDispatch(g) ==
    /\ DirectorDispatchStep(g)
    /\ hist' = [hist EXCEPT !.seq[g] = 0]

BalancerSucceed(g) ==
    /\ reqs[g].pc = "transport"
    /\ reqs[g].target # 0
    /\ backends' = ModifyResponseResult(reqs[g].dctx, backends)
    /\ reqs' = [reqs EXCEPT ![g] = NewRequest]
    /\ hist' = [hist EXCEPT !.ok = @ \/ ~backends[reqs[g].target].Healthy]
    /\ UNCHANGED lb

(* IncrementFailure takes b.mu for writing *)
BalancerFail(g) ==
    LET q == reqs[g]
        res == ErrorHandlerResult(q.dctx, q.w, backends)
    IN  /\ q.pc = "transport"
        /\ q.target # 0 => /\ backends[q.target].mu = ""
                           /\ backends[q.target].failureCount < MaxFailures
        /\ backends' = res.backends
        /\ reqs' = [reqs EXCEPT ![g] = NewRequest]
        /\ hist' = [hist EXCEPT !.clean = @ /\ \A b \in 1..Len(backends) : res.backends[b].Healthy]
        /\ UNCHANGED lb

CallSetAlgorithm(g, name) ==
    /\ reqs[g].pc = "new"
    /\ reqs' = [reqs EXCEPT ![g].pc = "setalg", ![g].algorithm = name]
    /\ UNCHANGED <<backends, lb, hist>>

BalancerSetAlgorithm(g) ==
    /\ reqs[g].pc = "setalg"
    /\ lb.mu = 0
    /\ lb' = SetAlgorithm(lb, IF reqs[g].algorithm = "round-robin"
                              THEN NewRoundRobin ELSE NewLeastConnection)
    /\ reqs' = [reqs EXCEPT ![g] = NewRequest]
    /\ hist' = [hist EXCEPT !.set = reqs[g].algorithm]
    /\ UNCHANGED backends

ProbeLock(b, op) ==
    /\ backends[b].mu = ""
    /\ backends' = [backends EXCEPT ![b].mu = op]
    /\ UNCHANGED <<lb, reqs, hist>>

ProbeRun(b) ==
    /\ backends[b].mu # ""
    /\ backends' = [backends EXCEPT ![b] =
                      [(IF @.mu = "MarkHealthy" THEN MarkHealthy(@) ELSE MarkUnHealthy(@))
                         EXCEPT !.mu = ""]]
    /\ hist' = [hist EXCEPT !.clean = @ /\ backends[b].mu = "MarkHealthy"]
    /\ UNCHANGED <<lb, reqs>>

NextBalancer ==
    \/ \E g \in Reqs : CallNextBackend(g)
    \/ \E g \in Reqs : BalancerEnter(g)
    \/ \E g \in Reqs : BalancerScan(g)
    \/ \E g \in Reqs : BalancerDispatch(g)
    \/ \E g \in Reqs : BalancerSucceed(g)
    \/ \E g \in Reqs : BalancerFail(g)
    \/ \E g \in Reqs, name \in {"round-robin", "least-connection"} : CallSetAlgorithm(g, name)
    \/ \E g \in Reqs : BalancerSetAlgorithm(g)
    \/ \E b \in 1..Len(backends), op \in {"MarkHealthy", "MarkUnHealthy"} : ProbeLock(b, op)
    \/ \E b \in 1..Len(backends) : ProbeRun(b)

SpecBalancer == InitBalancer /\ [][NextBalancer]_vars

----------------------------------------------------------------------------
(* SpecRoundRobinShared: one RoundRobin instance whose NextBackend is      *)
(* called by goroutines 1..MaxRequests at the same time, MaxCalls calls in *)
(* all, on 1..MaxBackends backends with any health assignment and any      *)
(* cursor. A call takes rr.mu, then repeats: load backends[rr.index]       *)
(* (kept in the caller's i), then advance rr.index and test the backend    *)
(* loaded; the return releases rr.mu. hist.first is the cursor at the      *)
(* start; hist.picks lists the backends returned (0 for nil), in the       *)
(* order of the returns.                                                   *)

(* rr.mu.Lock() can proceed *)
RRMuIgnored(rr) == TRUE

RRMuFree(rr) == rr.mu = 0

InitRoundRobinShared ==
    \E n \in 1..MaxBackends :
      \E health \in [1..n -> BOOLEAN], p \in 0..(n - 1) :
        /\ backends = [b \in 1..n |-> [NewBackend EXCEPT !.Healthy = health[b]]]
        /\ lb = [NewLoadBalancer EXCEPT !.algorithm = [NewRoundRobin EXCEPT !.index = p]]
        /\ reqs = [r \in Reqs |-> NewRequest]
        /\ hist = [first |-> p, picks |-> <<>>]

RRCall(g) ==
    /\ reqs[g].pc = "new"
    /\ Len(hist.picks) + Cardinality({h \in Reqs : reqs[h].pc # "new"}) < MaxCalls
    /\ reqs' = [reqs EXCEPT ![g].pc = "rrlock"]
    /\ UNCHANGED <<backends, lb, hist>>

RRLock(g) ==
    /\ reqs[g].pc = "rrlock"
    /\ RRMuFree(lb.algorithm)
    /\ lb' = [lb EXCEPT !.algorithm.mu = g]
    /\ reqs' = [reqs EXCEPT ![g].pc = "scan", ![g].start = lb.algorithm.index]
    /\ UNCHANGED <<backends, hist>>

RRLoad(g) ==
    /\ reqs[g].pc = "scan"
    /\ reqs' = [reqs EXCEPT ![g].pc = "advance", ![g].i = lb.algorithm.index + 1]
    /\ UNCHANGED <<backends, lb, hist>>

RRAdvance(g) ==
    LET q == reqs[g]
        index == (lb.algorithm.index + 1) % Len(backends)
        healthy == IsHealthy(backends[q.i])
    IN  /\ q.pc = "advance"
        /\ IF healthy \/ index = q.start
           THEN /\ lb' = [lb EXCEPT !.algorithm.index = index, !.algorithm.mu = 0]
                /\ reqs' = [reqs EXCEPT ![g] = NewRequest]
                /\ hist' = [hist EXCEPT !.picks = Append(@, IF healthy THEN q.i ELSE 0)]
           ELSE /\ lb' = [lb EXCEPT !.algorithm.index = index]
                /\ reqs' = [reqs EXCEPT ![g].pc = "scan"]
                /\ hist' = hist
        /\ UNCHANGED backends

NextRoundRobinShared ==
    \/ \E g \in Reqs : RRCall(g)
    \/ \E g \in Reqs : RRLock(g)
    \/ \E g \in Reqs : RRLoad(g)
    \/ \E g \in Reqs : RRAdvance(g)

SpecRoundRobinShared == InitRoundRobinShared /\ [][NextRoundRobinShared]_vars

----------------------------------------------------------------------------
(* SpecProbe: the probe loops of StartHealthCheck, one goroutine per       *)
(* backend, next to failure reports (IncrementFailure) and an environment  *)
(* that turns each backend's /health endpoint on and off. A round of the   *)
(* loop is two steps: the sleep and the GET, whose outcome is "ok" when    *)
(* the endpoint answers 200 and "fail" otherwise (error, timeout, other    *)
(* status); then MarkHealthy or MarkUnHealthy, after which the loop        *)
(* starts over. The scheduler is fair to each probe goroutine.             *)
(* hist holds, per backend: up, whether the endpoint answers 200; probe,   *)
(* the position of its loop ("sleep", or the outcome in hand); recovered,  *)
(* whether a probe has marked it healthy when it was not.                  *)

(* The loop that returns after a failed probe *)
ProbeLoopStopOnFail(outcome) == IF outcome = "fail" THEN "stopped" ELSE "sleep"

(* for { ... }: where the loop goes after a round *)
ProbeLoop(outcome) == "sleep"

InitProbe ==
    /\ backends = [b \in 1..NumBackends |-> NewBackend]
    /\ lb = NewLoadBalancer
    /\ reqs = [r \in Reqs |-> NewRequest]
    /\ hist = [up |-> [b \in 1..NumBackends |-> TRUE],
               probe |-> [b \in 1..NumBackends |-> "sleep"],
               recovered |-> [b \in 1..NumBackends |-> FALSE]]

ProbeGet(b) ==
    /\ hist.probe[b] = "sleep"
    /\ hist' = [hist EXCEPT !.probe[b] = IF hist.up[b] THEN "ok" ELSE "fail"]
    /\ UNCHANGED <<backends, lb, reqs>>

ProbeMark(b) ==
    /\ hist.probe[b] \in {"ok", "fail"}
    /\ IF hist.probe[b] = "ok" THEN ProbeSuccess(b) ELSE ProbeFailure(b)
    /\ hist' = [hist EXCEPT !.probe[b] = ProbeLoop(hist.probe[b]),
                            !.recovered[b] = @ \/ (hist.probe[b] = "ok" /\ ~backends[b].Healthy)]

EndpointChange(b) ==
    /\ hist' = [hist EXCEPT !.up[b] = ~@]
    /\ UNCHANGED <<backends, lb, reqs>>

ProbeReportFailure(b) ==
    /\ backends[b].failureCount < MaxFailures
    /\ backends' = [backends EXCEPT ![b] = IncrementFailure(@)]
    /\ UNCHANGED <<lb, reqs, hist>>

NextProbe ==
    \/ \E b \in 1..Len(backends) : ProbeGet(b)
    \/ \E b \in 1..Len(backends) : ProbeMark(b)
    \/ \E b \in 1..Len(backends) : EndpointChange(b)
    \/ \E b \in 1..Len(backends) : ProbeReportFailure(b)

SpecProbe ==
    /\ InitProbe
    /\ [][NextProbe]_vars
    /\ \A b \in 1..NumBackends : WF_vars(ProbeGet(b)) /\ WF_vars(ProbeMark(b))

----------------------------------------------------------------------------
(* SpecLeastConnection: LeastConnection.NextBackend called once on         *)
(* 1..MaxBackends backends with any health assignment and any connection   *)
(* counts in 0..MaxConns. hist.picks holds the backend returned (ret, 0    *)
(* for nil).                                                               *)

InitLeastConnection ==
    \E n \in 1..MaxBackends :
      \E health \in [1..n -> BOOLEAN], conns \in [1..n -> 0..MaxConns] :
        /\ backends = [b \in 1..n |-> [NewBackend EXCEPT !.Healthy = health[b],
                                                         !.ActiveConnections = conns[b]]]
        /\ lb = [mu |-> 0, algorithm |-> NewLeastConnection]
        /\ reqs = [r \in Reqs |-> NewRequest]
        /\ hist = [picks |-> <<>>]

LeastConnectionCall ==
    /\ Len(hist.picks) = 0
    /\ hist' = [hist EXCEPT !.picks = Append(@, [ret |-> LeastConnectionNextBackend(backends)])]
    /\ UNCHANGED <<backends, lb, reqs>>

NextLeastConnection == LeastConnectionCall

SpecLeastConnection == InitLeastConnection /\ [][NextLeastConnection]_vars

----------------------------------------------------------------------------
(* SpecSelection: one call of LoadBalancer.NextBackend by each goroutine,  *)
(* under either strategy (round-robin from any cursor, least-connection),  *)
(* on 1..MaxBackends backends with any health, while the probe loops       *)
(* (MarkHealthy, MarkUnHealthy) and failure reports (IncrementFailure)     *)
(* change health between the iterations of the call's loop, MaxChanges     *)
(* times in all. Each backend starts with no failure counted or one        *)
(* failure short of the threshold.                                         *)
(* hist holds, per goroutine: read, per backend what IsHealthy returned    *)
(* when the call examined it ("" if it has not); steady, the backends      *)
(* that have been healthy from the entry of the call to its return; and    *)
(* changes, the number of health updates made.                             *)

InitSelection ==
    \E n \in 1..MaxBackends :
      \E health \in [1..n -> BOOLEAN], conns \in [1..n -> 0..1],
         fails \in [1..n -> {0, FailureThreshold - 1}],
         algo \in {NewLeastConnection} \cup {[NewRoundRobin EXCEPT !.index = p] : p \in 0..(n - 1)} :
        /\ backends = [b \in 1..n |-> [NewBackend EXCEPT !.Healthy = health[b],
                                                         !.failureCount = fails[b],
                                                         !.ActiveConnections = conns[b]]]
        /\ lb = [NewLoadBalancer EXCEPT !.algorithm = algo]
        /\ reqs = [r \in Reqs |-> [NewRequest EXCEPT !.pc = "director"]]
        /\ hist = [read |-> [g \in Reqs |-> [b \in 1..n |-> ""]],
                   steady |-> [g \in Reqs |-> {}],
                   changes |-> 0]

(* The history after a change of health to bs *)
SelectionHealth(bs) ==
    [hist EXCEPT !.changes = @ + 1,
                 !.steady = [g \in Reqs |->
                               IF reqs[g].pc = "scan"
                               THEN {b \in @[g] : bs[b].Healthy} ELSE @[g]]]

SelectionEnter(g) ==
    /\ NextBackendEnterStep(g)
    /\ hist' = [hist EXCEPT !.steady[g] = {b \in 1..Len(backends) : backends[b].Healthy}]

SelectionScan(g) ==
    /\ reqs[g].pc = "scan"
    /\ NextBackendScanStep(g)
    /\ hist' = [hist EXCEPT !.read[g][Examined(g)] =
                              IF IsHealthy(backends[Examined(g)])
                              THEN "healthy" ELSE "unhealthy"]

SelectionMarkHealthy(b) ==
    /\ hist.changes < MaxChanges
    /\ ProbeSuccess(b)
    /\ hist' = SelectionHealth(backends')

SelectionMarkUnHealthy(b) ==
    /\ hist.changes < MaxChanges
    /\ ProbeFailure(b)
    /\ hist' = SelectionHealth(backends')

SelectionReportFailure(b) ==
    /\ hist.changes < MaxChanges
    /\ backends[b].failureCount < MaxFailures
    /\ backends' = [backends EXCEPT ![b] = IncrementFailure(@)]
    /\ hist' = SelectionHealth(backends')
    /\ UNCHANGED <<lb, reqs>>

NextSelection ==
    \/ \E g \in Reqs : SelectionEnter(g)
    \/ \E g \in Reqs : SelectionScan(g)
    \/ \E b \in 1..Len(backends) : SelectionMarkHealthy(b)
    \/ \E b \in 1..Len(backends) : SelectionMarkUnHealthy(b)
    \/ \E b \in 1..Len(backends) : SelectionReportFailure(b)

SpecSelection == InitSelection /\ [][NextSelection]_vars

----------------------------------------------------------------------------
(* Properties *)

Completes(r) == reqs[r].pc # "done" /\ reqs'[r].pc = "done"

(* The strategy a caller observes: its kind and, for round-robin, its      *)
(* cursor; an unset algorithm is observed as the default it will become.   *)
Strategy(l) ==
    CASE l.algorithm.name = "nil" -> [name |-> "round-robin", index |-> 0]
      [] l.algorithm.name = "round-robin" ->
            [name |-> "round-robin", index |-> l.algorithm.index]
      [] OTHER -> [name |-> "least-connection", index |-> 0]

BadGateway(body) == [status |-> StatusBadGateway, body |-> <<body>>]

(* C1 (Spec): connection-count balance. Whenever no request is in flight   *)
(* (every request has either not arrived or has completed), every          *)
(* backend's ActiveConnections is 0.                                       *)
C1_ConnectionBalance ==
    (\A r \in Reqs : reqs[r].pc \in {"new", "done"})
        => \A b \in 1..Len(backends) : backends[b].ActiveConnections = 0

(* C2 (Spec): dispatch failure is recorded. When the forwarded call of a   *)
(* request sent to a backend fails, that step raises exactly that          *)
(* backend's failure counter by 1 and answers 502 "Bad Gateway".           *)
C2_DispatchFailureRecorded ==
    [][\A r \in Reqs :
          (reqs[r].target > 0 /\ ErrorHandler(r))
            => /\ backends'[reqs[r].target].failureCount
                    = backends[reqs[r].target].failureCount + 1
               /\ \A b \in 1..Len(backends) :
                    b # reqs[r].target
                      => backends'[b].failureCount = backends[b].failureCount
               /\ reqs'[r].w = BadGateway("Bad Gateway")]_vars

(* C3 (Spec): no healthy backend. A request for which NextBackend returned *)
(* nil is answered 502 "no healthy backend available", and its handling    *)
(* changes no backend's counter, health flag or ActiveConnections.         *)
C3_NoHealthyBackend ==
    [][\A r \in Reqs :
          /\ (reqs[r].pc = "dispatch" /\ reqs[r].backend = 0 /\ DirectorDispatch(r))
                => backends' = backends
          /\ (reqs[r].target = 0 /\ ErrorHandler(r))
                => /\ backends' = backends
                   /\ reqs'[r].w = BadGateway("no healthy backend available")]_vars

(* C4 (Spec): admin swap. A POST to /change-algorithm naming round-robin   *)
(* or least-connection, sent to the server, is answered 200 and by its     *)
(* completion has replaced the strategy with a new instance of the named   *)
(* one.                                                                    *)
C4_AdminSwap ==
    [][\A r \in Reqs :
          (/\ reqs[r].method = "POST" /\ reqs[r].path = "/change-algorithm"
           /\ reqs[r].algorithm \in {"round-robin", "least-connection"}
           /\ Completes(r))
            => /\ reqs'[r].w.status = StatusOK
               /\ Strategy(lb') = [name |-> reqs[r].algorithm, index |-> 0]]_vars

(* C5 (Spec): invalid admin input. A POST to /change-algorithm with an     *)
(* unrecognised algorithm is answered 400, and no step of its handling     *)
(* changes the strategy (its round-robin cursor included) or any backend.  *)
C5_InvalidAdminInput ==
    [][\A r \in Reqs :
          (/\ reqs[r].method = "POST" /\ reqs[r].path = "/change-algorithm"
           /\ reqs[r].algorithm \notin {"round-robin", "least-connection"}
           /\ reqs'[r] # reqs[r])
            => /\ Strategy(lb') = Strategy(lb)
               /\ backends' = backends
               /\ Completes(r) => reqs'[r].w.status = StatusBadRequest]_vars

(* C6 as stated (SpecBackend): no step of the probe loop changes any       *)
(* backend's ActiveConnections or failure counter.                         *)
C6_ProbeLeavesCounters ==
    [][\A b \in 1..Len(backends) :
          (BackendProbeSuccess(b) \/ BackendProbeFailure(b))
            => \A c \in 1..Len(backends) :
                 /\ backends'[c].ActiveConnections = backends[c].ActiveConnections
                 /\ backends'[c].failureCount = backends[c].failureCount]_vars

(* C6 amended (SpecBackend): no step of the probe loop changes any         *)
(* backend's ActiveConnections, nor anything of another backend; a failed  *)
(* probe leaves the probed backend's failure counter as it was; a          *)
(* successful probe sets it to 0.                                          *)
C6_ProbeOnlyResetsCounter ==
    [][\A b \in 1..Len(backends) :
          (BackendProbeSuccess(b) \/ BackendProbeFailure(b))
            => /\ \A c \in 1..Len(backends) :
                    /\ backends'[c].ActiveConnections = backends[c].ActiveConnections
                    /\ c # b => backends'[c] = backends[c]
               /\ BackendProbeFailure(b)
                    => backends'[b].failureCount = backends[b].failureCount
               /\ BackendProbeSuccess(b) => backends'[b].failureCount = 0]_vars

(* C6 witness: a successful probe has reset a counter that stood above 0,  *)
(* on a backend with connections, while the other backend was marked down  *)
(* by a failed probe with failures counted.                                *)
C6_Witness ==
    \E b, c \in 1..Len(backends) :
        /\ hist[b].reset > 0 /\ backends[b].failureCount = 0
        /\ backends[b].ActiveConnections > 0
        /\ hist[c].down /\ backends[c].failureCount > 0

(* C7 (SpecBackend): in every state reached by any interleaving of         *)
(* MarkHealthy, MarkUnHealthy and IncrementFailure, a failure counter of   *)
(* 5 or more implies the backend is not healthy.                           *)
C7_HealthCounterInvariant ==
    \A b \in 1..Len(backends) :
        backends[b].failureCount >= 5 => ~backends[b].Healthy

(* C7 witness: a counter has reached the threshold after a recovery.       *)
C7_Witness ==
    \E b \in 1..Len(backends) :
        backends[b].failureCount >= 5 /\ hist[b].reset >= 0

(* C8 (SpecBackend): failure threshold. With no MarkUnHealthy since the    *)
(* backend was constructed or last marked healthy, the backend is healthy  *)
(* after k IncrementFailure calls exactly when k <= 4; MarkHealthy starts  *)
(* the count again from 0.                                                 *)
C8_FailureThreshold ==
    \A b \in 1..Len(backends) :
        ~hist[b].down => (backends[b].Healthy <=> hist[b].fails <= 4)

(* C8 witness: a backend tripped by failures, recovered by MarkHealthy,    *)
(* has been tripped again by exactly five further failures.                *)
C8_Witness ==
    \E b \in 1..Len(backends) :
        /\ hist[b].reset >= 5 /\ ~hist[b].down
        /\ hist[b].fails = 5 /\ ~backends[b].Healthy

AllHealthy == \A b \in 1..Len(backends) : backends[b].Healthy
SomeHealthy == \E b \in 1..Len(backends) : backends[b].Healthy

(* C9 (SpecRoundRobin): round-robin fairness. On N healthy backends and a  *)
(* fresh cursor, the k-th of the first N calls returns backends[k-1], and  *)
(* the N-th call leaves the cursor at 0.                                   *)
C9_RoundRobinFairness ==
    (AllHealthy /\ hist.first = 0)
        => /\ \A k \in 1..Len(hist.picks) :
                k <= Len(backends) => hist.picks[k].ret = k
           /\ Len(hist.picks) >= Len(backends)
                => hist.picks[Len(backends)].index = 0

(* C9 witness: a full turn of the ring on two or more healthy backends.    *)
C9_Witness ==
    /\ AllHealthy /\ hist.first = 0
    /\ Len(backends) >= 2 /\ Len(hist.picks) = Len(backends)

(* The first healthy backend in ring order from cursor p *)
FirstHealthyFrom(p) ==
    LET n == Len(backends)
        at(d) == ((p + d) % n) + 1
        d0 == CHOOSE d \in 0..(n - 1) :
                  /\ backends[at(d)].Healthy
                  /\ \A e \in 0..(d - 1) : ~backends[at(e)].Healthy
    IN  at(d0)

(* C10 (SpecRoundRobin): round-robin skip. With at least one healthy       *)
(* backend, a call at cursor p returns the first healthy backend in ring   *)
(* order from p and leaves the cursor one past it (mod N).                 *)
C10_RoundRobinSkip ==
    SomeHealthy
        => \A k \in 1..Len(hist.picks) :
             /\ hist.picks[k].ret = FirstHealthyFrom(hist.picks[k].p)
             /\ hist.picks[k].index = hist.picks[k].ret % Len(backends)

(* C10 witness: a call that skipped unhealthy backends and wrapped round   *)
(* the end of the list before it found a healthy one.                      *)
C10_Witness ==
    \E k \in 1..Len(hist.picks) :
        /\ hist.picks[k].ret # 0
        /\ hist.picks[k].ret < hist.picks[k].p + 1
        /\ ~backends[hist.picks[k].p + 1].Healthy

(* C11 (SpecRoundRobin): round-robin exhaustion. With every backend       *)
(* unhealthy, for every N >= 1 and every cursor p, a call returns nil      *)
(* after exactly N iterations (one full turn) with the cursor back at p.   *)
C11_RoundRobinExhaustion ==
    ~SomeHealthy
        => \A k \in 1..Len(hist.picks) :
             /\ hist.picks[k].ret = 0
             /\ hist.picks[k].iters = Len(backends)
             /\ hist.picks[k].index = hist.picks[k].p

(* C11 witness: calls on a single unhealthy backend are covered by N = 1   *)
(* of the initial states; this state is a call that returned nil on two or *)
(* more unhealthy backends from a cursor in the middle of the list.        *)
C11_Witness ==
    /\ ~SomeHealthy /\ Len(backends) >= 2 /\ hist.first > 0
    /\ Len(hist.picks) >= 1 /\ hist.picks[1].ret = 0

(* C12 (SpecLeastConnection): least-connections choice. The call returns  *)
(* nil exactly when no backend is healthy; otherwise it returns a healthy  *)
(* backend whose ActiveConnections is minimal among the healthy ones, the  *)
(* earliest in list order among those with that minimum.                   *)
C12_LeastConnectionChoice ==
    \A k \in 1..Len(hist.picks) :
        LET r == hist.picks[k].ret IN
        /\ r = 0 <=> ~SomeHealthy
        /\ r # 0 =>
             /\ backends[r].Healthy
             /\ \A c \in 1..Len(backends) :
                  backends[c].Healthy
                    => /\ backends[r].ActiveConnections <= backends[c].ActiveConnections
                       /\ backends[c].ActiveConnections = backends[r].ActiveConnections
                            => r <= c

(* C12 witness: the call passed over an unhealthy backend with a lower     *)
(* count and returned the earlier of two healthy backends tied at the      *)
(* minimum.                                                                *)
C12_Witness ==
    \E k \in 1..Len(hist.picks) :
        LET r == hist.picks[k].ret IN
        /\ r # 0
        /\ \E u \in 1..Len(backends) :
              ~backends[u].Healthy
              /\ backends[u].ActiveConnections < backends[r].ActiveConnections
        /\ \E c \in 1..Len(backends) :
              c > r /\ backends[c].Healthy
              /\ backends[c].ActiveConnections = backends[r].ActiveConnections

(* C13: once a SetAlgorithm has returned, every NextBackend call that is   *)
(* inside its selection loop runs the strategy of the last SetAlgorithm    *)
(* that returned: for least-connection the balancer holds a                *)
(* LeastConnection value, with no cursor of an earlier round-robin, and    *)
(* the call's loop is the least-connection scan (position within the       *)
(* backends, best so far among those already read); callers that have not  *)
(* entered yet wait outside the critical section.                          *)
C13_SwapImmediate ==
    \A g \in Reqs :
        (reqs[g].pc = "scan" /\ hist.set # "")
            => /\ lb.mu = g
               /\ lb.algorithm.name = hist.set
               /\ hist.set = "least-connection"
                     => /\ lb.algorithm = NewLeastConnection
                        /\ reqs[g].i \in 1..Len(backends)
                        /\ reqs[g].best \in 0..(reqs[g].i - 1)
               /\ hist.set = "round-robin"
                     => /\ lb.algorithm.mu = g
                        /\ lb.algorithm.index \in 0..(Len(backends) - 1)

C13_Witness ==
    \E g, h \in Reqs :
        /\ hist.set = "least-connection"
        /\ hist.calls >= 1
        /\ reqs[g].pc = "scan" /\ reqs[g].i = 2 /\ reqs[g].best = 1
        /\ reqs[h].pc = "director"

(* C14 (Spec): active connections. In every state every backend's        *)
(* ActiveConnections is at least 0, and it is 0 whenever every request     *)
(* dispatched to the backend has completed through ModifyResponse (the     *)
(* backend answered).                                                      *)
C14_ActiveConnections ==
    \A b \in 1..Len(backends) :
        /\ backends[b].ActiveConnections >= 0
        /\ (\A r \in Reqs :
               reqs[r].target = b
                 => reqs[r].pc = "done" /\ reqs[r].w.body = <<"upstream">>)
             => backends[b].ActiveConnections = 0

(* C15 (SpecBackend): MarkUnHealthy on a backend whose failure counter c   *)
(* is below the threshold of 5 (0 included) leaves the backend not healthy *)
(* with the counter still c, whatever its health was before.               *)
C15_MarkUnHealthyKeepsCounter ==
    [][\A b \in 1..Len(backends) :
          (BackendProbeFailure(b) /\ backends[b].failureCount < FailureThreshold)
            => /\ ~backends'[b].Healthy
               /\ backends'[b].failureCount = backends[b].failureCount]_vars

(* C15 witness: MarkUnHealthy has found one backend with counter 0 and     *)
(* another with a counter between 1 and 4, and both are down with those    *)
(* counters.                                                               *)
C15_Witness ==
    \E b, c \in 1..Len(backends) :
        /\ hist[b].downAt = 0 /\ backends[b].failureCount = 0 /\ ~backends[b].Healthy
        /\ hist[c].downAt \in 1..(FailureThreshold - 1)
        /\ backends[c].failureCount = hist[c].downAt /\ ~backends[c].Healthy

(* C16 (SpecBalancer): no NextBackend call runs its selection on an unset  *)
(* strategy. On a balancer on which SetAlgorithm has never returned, the   *)
(* algorithm is unset exactly as long as no call has entered the critical  *)
(* section, and is a round-robin from then on; the first call starts at    *)
(* cursor 0; and while every backend has stayed healthy each call starts   *)
(* at the cursor the calls before it left (one instance, reused): the      *)
(* number of calls returned, modulo the number of backends.                *)
C16_StrategyNeverUnset ==
    LET entered == hist.calls > 0 \/ \E g \in Reqs : reqs[g].pc = "scan"
    IN  /\ \A g \in Reqs : reqs[g].pc = "scan" => lb.algorithm.name # "nil"
        /\ hist.set = ""
              => /\ lb.algorithm.name = (IF entered THEN "round-robin" ELSE "nil")
                 /\ \A g \in Reqs :
                       (reqs[g].pc = "scan" /\ hist.calls = 0) => reqs[g].start = 0
                 /\ hist.clean
                       => /\ \A g \in Reqs :
                               reqs[g].pc = "scan"
                                 => reqs[g].start = hist.calls % Len(backends)
                          /\ (entered /\ lb.mu = 0)
                                => lb.algorithm.index = hist.calls % Len(backends)

(* C16 witness: on a balancer never given an algorithm, the first call has *)
(* just returned backend 1 and a second call, which entered before the     *)
(* first caller went on, runs on the same round-robin from cursor 1.       *)
C16_Witness ==
    \E g, h \in Reqs :
        /\ hist.set = "" /\ hist.clean /\ hist.calls = 1
        /\ reqs[h].pc = "dispatch" /\ hist.seq[h] = 1 /\ reqs[h].backend = 1
        /\ reqs[g].pc = "scan" /\ reqs[g].start = 1

(* C17 (SpecBalancer): a backend's Healthy changes from false to true only *)
(* in the step in which a probe goroutine runs MarkHealthy; the successful *)
(* completion of a forwarded request changes no backend's Healthy or       *)
(* failure counter; and no step of selection, dispatch, failure report or  *)
(* strategy swap takes any backend from not healthy to healthy.            *)
C17_RecoveryProbeOnly ==
    [][/\ \A b \in 1..Len(backends) :
             (~backends[b].Healthy /\ backends'[b].Healthy)
                => (ProbeRun(b) /\ backends[b].mu = "MarkHealthy")
       /\ \A g \in Reqs :
             BalancerSucceed(g)
                => \A b \in 1..Len(backends) :
                     /\ backends'[b].Healthy = backends[b].Healthy
                     /\ backends'[b].failureCount = backends[b].failureCount
       /\ \A g \in Reqs :
             (BalancerEnter(g) \/ BalancerScan(g) \/ BalancerDispatch(g)
                \/ BalancerFail(g) \/ BalancerSetAlgorithm(g))
                => \A b \in 1..Len(backends) :
                     backends'[b].Healthy => backends[b].Healthy]_vars

(* C17 witness: a forwarded request has completed successfully on a        *)
(* backend that was down at that moment, and every backend, one of which   *)
(* has been down, is healthy again with no failure counted.                *)
C17_Witness ==
    /\ hist.ok /\ ~hist.clean
    /\ \A b \in 1..Len(backends) :
          backends[b].Healthy /\ backends[b].failureCount = 0 /\ backends[b].mu = ""
    /\ \A g \in Reqs : reqs[g].pc = "new"

(* C18 (SpecRoundRobinShared): with every backend healthy, the calls made  *)
(* by concurrent callers of one RoundRobin instance return, in the order   *)
(* of their returns, the backends at consecutive ring positions from the   *)
(* cursor at the start; no backend is returned twice within N consecutive  *)
(* returns; at most one caller is inside the loop; and whenever no call is *)
(* inside, the cursor stands K mod N past the start, K the calls returned. *)
C18_RoundRobinConcurrent ==
    LET n == Len(backends)
        K == Len(hist.picks)
        inside == {g \in Reqs : reqs[g].pc \in {"scan", "advance"}}
    IN  AllHealthy
          => /\ \A k \in 1..K : hist.picks[k] = ((hist.first + k - 1) % n) + 1
             /\ \A j, k \in 1..K : (j < k /\ k - j < n) => hist.picks[j] # hist.picks[k]
             /\ Cardinality(inside) <= 1
             /\ inside = {} => lb.algorithm.index = (hist.first + K) % n

(* C18 witness: three healthy backends, cursor 2 at the start; two calls   *)
(* have returned backends 3 and 1 (around the end of the ring), a third    *)
(* caller is inside the loop and another waits for rr.mu.                  *)
C18_Witness ==
    /\ AllHealthy /\ Len(backends) = 3 /\ hist.first = 2
    /\ hist.picks = <<3, 1>>
    /\ \E g, h \in Reqs : reqs[g].pc = "advance" /\ reqs[h].pc = "rrlock"

(* C19 (SpecProbe): under fair scheduling of the probe goroutines, for     *)
(* every backend: its probe loop can always take a step (it never          *)
(* terminates, whatever the earlier outcomes); it completes a round        *)
(* infinitely often; and if its /health endpoint answers 200 from some     *)
(* point on, then again and again the backend is healthy with failure      *)
(* counter 0.                                                              *)
C19_ProbeLiveness ==
    \A b \in 1..NumBackends :
        /\ [](hist.probe[b] \in {"sleep", "ok", "fail"})
        /\ []<>(hist.probe[b] # "sleep") /\ []<>(hist.probe[b] = "sleep")
        /\ (<>[]hist.up[b])
              => []<>(backends[b].Healthy /\ backends[b].failureCount = 0)

(* C19 witness: a backend that was down after failures reached the         *)
(* threshold has been marked healthy by a probe and stands healthy with    *)
(* counter 0 while the other backend, its endpoint down, is not healthy.   *)
C19_Witness ==
    \E b, c \in 1..Len(backends) :
        /\ hist.recovered[b] /\ hist.up[b]
        /\ backends[b].Healthy /\ backends[b].failureCount = 0
        /\ ~hist.up[c] /\ ~backends[c].Healthy /\ backends[c].failureCount >= FailureThreshold

(* C20 (SpecBalancer): lock order and freedom from deadlock. rr.mu is held *)
(* only by the goroutine that holds lb.mu, and that goroutine is inside    *)
(* the selection loop, where it takes a backend's read lock only for one   *)
(* test; every goroutine outside the loop holds no balancer lock, and a    *)
(* probe writer holds only its backend's lock. So a writer that holds a    *)
(* backend lock can always run and release it; the holder of lb.mu can     *)
(* always take its next iteration, or waits for a writer that can run;     *)
(* and whoever waits for lb.mu or for a backend lock waits for such a      *)
(* holder: no waiting goroutine waits for one that waits for it.           *)
C20_LockOrder ==
    LET rrHolder == IF lb.algorithm.name = "round-robin" THEN lb.algorithm.mu ELSE 0
        WriterRuns(b) == backends[b].mu # "" /\ ENABLED ProbeRun(b)
        HolderRuns == lb.mu \in Reqs
                        /\ (ENABLED BalancerScan(lb.mu) \/ WriterRuns(Examined(lb.mu)))
    IN  /\ rrHolder # 0 => rrHolder = lb.mu
        /\ lb.mu \in Reqs \cup {0}
        /\ \A g \in Reqs : (lb.mu = g) <=> (reqs[g].pc = "scan")
        /\ \A b \in 1..Len(backends) : backends[b].mu # "" => ENABLED ProbeRun(b)
        /\ lb.mu # 0 => HolderRuns
        /\ \A g \in Reqs :
              /\ reqs[g].pc = "director" => (ENABLED BalancerEnter(g) \/ HolderRuns)
              /\ reqs[g].pc = "setalg" => (ENABLED BalancerSetAlgorithm(g) \/ HolderRuns)
              /\ reqs[g].pc = "dispatch" => ENABLED BalancerDispatch(g)
              /\ reqs[g].pc = "transport"
                    => /\ reqs[g].target # 0 => ENABLED BalancerSucceed(g)
                       /\ reqs[g].target = 0 => ENABLED BalancerFail(g)
                       /\ (reqs[g].target # 0
                              /\ backends[reqs[g].target].failureCount < MaxFailures)
                            => (ENABLED BalancerFail(g) \/ WriterRuns(reqs[g].target))

(* C20 witness: a goroutine holds lb.mu and rr.mu inside the round-robin   *)
(* loop and waits for the read lock of a backend a probe writer holds,     *)
(* while another goroutine waits for lb.mu in SetAlgorithm.                *)
C20_Witness ==
    \E g, h \in Reqs :
        /\ reqs[g].pc = "scan" /\ lb.mu = g
        /\ lb.algorithm.name = "round-robin" /\ lb.algorithm.mu = g
        /\ backends[Examined(g)].mu = "MarkUnHealthy"
        /\ reqs[h].pc = "setalg"

(* C21 (SpecSelection): selection under concurrent health updates, for    *)
(* both strategies. When a NextBackend call has returned: a backend it     *)
(* returned was read as healthy by IsHealthy during the call; if it        *)
(* returned none, every backend was examined and read as not healthy; and  *)
(* if some backend was healthy from the entry of the call to its return,   *)
(* the call returned a backend.                                            *)
C21_SelectionSound ==
    \A g \in Reqs :
        reqs[g].pc = "dispatch"
          => /\ reqs[g].backend # 0 => hist.read[g][reqs[g].backend] = "healthy"
             /\ reqs[g].backend = 0
                   => \A b \in 1..Len(backends) : hist.read[g][b] = "unhealthy"
             /\ hist.steady[g] # {} => reqs[g].backend # 0

(* C21 witness: a call has returned a backend that it read as healthy and  *)
(* that is not healthy any more, after passing over a backend it read as   *)
(* not healthy and that is healthy now.                                    *)
C21_Witness ==
    \E g \in Reqs : \E b \in 1..Len(backends) :
        /\ reqs[g].pc = "dispatch" /\ reqs[g].backend # 0
        /\ ~backends[reqs[g].backend].Healthy
        /\ hist.read[g][b] = "unhealthy" /\ backends[b].Healthy
        /\ hist.changes = MaxChanges

====
